---- MODULE Spec2Model ----
(***************************************************************************)
(* Model of the ICS calendar provider (src/code/CalendarICS.cpp) and of    *)
(* the surrounding widgets of the Zeiger e-paper display firmware.         *)
(*                                                                         *)
(* Text is modelled by TLA+ strings, indexed from 0 as the Arduino String  *)
(* methods index them.  Times are seconds since the epoch.                 *)
(***************************************************************************)
EXTENDS Integers, Sequences, FiniteSets, TLC

(***************************************************************************)
(* Tunables of CalendarICS.cpp                                             *)
(***************************************************************************)
kUiNeededItems == 6

kLineBuf == 1024

TitleSize == 40

(***************************************************************************)
(* Arduino String methods                                                  *)
(***************************************************************************)
Min(a, b) == IF a <= b THEN a ELSE b

Max(a, b) == IF a >= b THEN a ELSE b

charAt(s, i) == SubSeq(s, i + 1, i + 1)

substring(s, left, right) ==
  LET l == Min(left, right)
      r == Min(Max(left, right), Len(s))
  IN  IF l >= Len(s) THEN "" ELSE SubSeq(s, l + 1, r)

substringFrom(s, left) == substring(s, left, Len(s))

startsWith(s, p) == Len(p) <= Len(s) /\ SubSeq(s, 1, Len(p)) = p

indexOf(s, c) ==
  LET hits == {i \in 0..(Len(s) - 1) : charAt(s, i) = c}
  IN  IF hits = {} THEN -1 ELSE CHOOSE i \in hits : \A j \in hits : i <= j

indexOfStr(s, sub) ==
  LET hits == {i \in 0..(Len(s) - Len(sub)) : SubSeq(s, i + 1, i + Len(sub)) = sub}
  IN  IF hits = {} THEN -1 ELSE CHOOSE i \in hits : \A j \in hits : i <= j

isSpace(c) == c \in {" ", "\t", "\n", "\r", "\f"}

isDigit(c) == c \in {"0", "1", "2", "3", "4", "5", "6", "7", "8", "9"}

digitVal(c) == CHOOSE d \in 0..9 : charAt("0123456789", d) = c

RECURSIVE trimLeft(_)
trimLeft(s) ==
  IF Len(s) > 0 /\ isSpace(charAt(s, 0)) THEN trimLeft(SubSeq(s, 2, Len(s))) ELSE s

RECURSIVE trimRight(_)
trimRight(s) ==
  IF Len(s) > 0 /\ isSpace(charAt(s, Len(s) - 1))
    THEN trimRight(SubSeq(s, 1, Len(s) - 1))
    ELSE s

trim(s) == trimRight(trimLeft(s))

\* String::toInt is atol: leading blanks, an optional sign, then the digits up
\* to the first character that is no digit; 0 when there is no digit.
RECURSIVE atolDigits(_, _)
atolDigits(s, acc) ==
  IF Len(s) > 0 /\ isDigit(charAt(s, 0))
    THEN atolDigits(SubSeq(s, 2, Len(s)), acc * 10 + digitVal(charAt(s, 0)))
    ELSE acc

atol(t) ==
  IF Len(t) > 0 /\ charAt(t, 0) = "-" THEN 0 - atolDigits(SubSeq(t, 2, Len(t)), 0)
  ELSE IF Len(t) > 0 /\ charAt(t, 0) = "+" THEN atolDigits(SubSeq(t, 2, Len(t)), 0)
  ELSE atolDigits(t, 0)

toInt(s) == atol(trimLeft(s))

\* printf's %02d for the values the code prints (hours and minutes)
fmt02d(n) == charAt("0123456789", (n \div 10) % 10) \o charAt("0123456789", n % 10)

(***************************************************************************)
(* libc time: gmtime_r, timegm and mktime in a zone of fixed offset        *)
(***************************************************************************)
daysFromCivil(y, m, d) ==
  LET yy  == IF m <= 2 THEN y - 1 ELSE y
      era == yy \div 400
      yoe == yy - era * 400
      mp  == IF m > 2 THEN m - 3 ELSE m + 9
      doy == (153 * mp + 2) \div 5 + d - 1
      doe == yoe * 365 + yoe \div 4 - yoe \div 100 + doy
  IN  era * 146097 + doe - 719468

\* Each step of the computation takes the values of the steps before it as
\* arguments.
civilFromDays(z) ==
  LET ymd(y0, m, d) == [year |-> y0 + (IF m <= 2 THEN 1 ELSE 0), mon |-> m, mday |-> d]
      fromMp(y0, doy, mp) ==
        ymd(y0, IF mp < 10 THEN mp + 3 ELSE mp - 9, doy - (153 * mp + 2) \div 5 + 1)
      fromDoy(y0, doy) == fromMp(y0, doy, (5 * doy + 2) \div 153)
      fromYoe(era, doe, yoe) ==
        fromDoy(yoe + era * 400, doe - (365 * yoe + yoe \div 4 - yoe \div 100))
      fromDoe(era, doe) ==
        fromYoe(era, doe, (doe - doe \div 1460 + doe \div 36524 - doe \div 146096) \div 365)
      fromZ(zz) == fromDoe(zz \div 146097, zz - (zz \div 146097) * 146097)
  IN  fromZ(z + 719468)

\* struct tm as the code fills and reads it: tm_year counts from 1900 and
\* tm_mon from 0.
gmtime_r(t) ==
  LET tmOf(days, rem, c) ==
        [tm_year |-> c.year - 1900, tm_mon |-> c.mon - 1, tm_mday |-> c.mday,
         tm_hour |-> rem \div 3600, tm_min |-> (rem % 3600) \div 60, tm_sec |-> rem % 60,
         tm_yday |-> days - daysFromCivil(c.year, 1, 1)]
  IN  tmOf(t \div 86400, t % 86400, civilFromDays(t \div 86400))

\* timegm normalises out-of-range fields: months carry into the year, days
\* and seconds are added as they are.
timegm_compat(tm) ==
  LET y == tm.tm_year + 1900 + (tm.tm_mon \div 12)
      m == (tm.tm_mon % 12) + 1
  IN  (daysFromCivil(y, m, 1) + tm.tm_mday - 1) * 86400
        + tm.tm_hour * 3600 + tm.tm_min * 60 + tm.tm_sec

\* mktime reads the fields as local wall-clock time; zone is the platform's
\* offset from UTC in seconds.
mktime(tm, zone) == timegm_compat(tm) - zone

localtime_r(t, zone) == gmtime_r(t + zone)

currentLocalOffsetSeconds(now, zone) == timegm_compat(localtime_r(now, zone)) - now

(***************************************************************************)
(* Small helpers of CalendarICS.cpp                                        *)
(***************************************************************************)
\* icsUnescapeFrom that looks again at the second backslash of a pair
RECURSIVE icsUnescapeFrom_Rescan(_, _, _)
icsUnescapeFrom_Rescan(s, i, o) ==
  IF i >= Len(s) THEN o
  ELSE IF charAt(s, i) = "\\" /\ i + 1 < Len(s)
    THEN LET n == charAt(s, i + 1)
         IN  IF n = "n" \/ n = "N" THEN icsUnescapeFrom_Rescan(s, i + 2, o \o " ")
             ELSE IF n = "," \/ n = ";" THEN icsUnescapeFrom_Rescan(s, i + 2, o \o n)
             ELSE IF n = "\\" /\ i + 2 < Len(s) /\ charAt(s, i + 2) \in {"n", "N"}
               THEN icsUnescapeFrom_Rescan(s, i + 1, o \o n)
             ELSE IF n = "\\" THEN icsUnescapeFrom_Rescan(s, i + 2, o \o n)
             ELSE icsUnescapeFrom_Rescan(s, i + 1, o \o charAt(s, i))
    ELSE icsUnescapeFrom_Rescan(s, i + 1, o \o charAt(s, i))

RECURSIVE icsUnescapeFrom(_, _, _)
icsUnescapeFrom(s, i, o) ==
  IF i >= Len(s) THEN o
  ELSE IF charAt(s, i) = "\\" /\ i + 1 < Len(s)
    THEN LET n == charAt(s, i + 1)
         IN  IF n = "n" \/ n = "N" THEN icsUnescapeFrom(s, i + 2, o \o " ")
             ELSE IF n = "\\" \/ n = "," \/ n = ";" THEN icsUnescapeFrom(s, i + 2, o \o n)
             ELSE icsUnescapeFrom(s, i + 1, o \o charAt(s, i))
    ELSE icsUnescapeFrom(s, i + 1, o \o charAt(s, i))

\* icsUnescape run twice over the text
icsUnescape_Twice(s) == icsUnescapeFrom(icsUnescapeFrom(s, 0, ""), 0, "")

icsUnescape(s) == icsUnescapeFrom(s, 0, "")

fmtHHMM_local_fromUTC(tUTC, ofsSec) ==
  LET snprintf(tmL) == fmt02d(tmL.tm_hour) \o ":" \o fmt02d(tmL.tm_min)
  IN  IF tUTC <= 0 THEN "--:--" ELSE snprintf(gmtime_r(tUTC + ofsSec))

isSameLocalDay(aUTC, bUTC, ofsSec) ==
  LET key(tmL)  == tmL.tm_year * 1000 + tmL.tm_yday
      dayKey(t) == key(gmtime_r(t + ofsSec))
  IN  dayKey(aUTC) = dayKey(bUTC)

\* spansToday with the end taken as given, not the later of end and start
spansToday_EndAsGiven(startUTC, endUTC, refUTC, ofsSec) ==
  LET overlap(eEnd, dayStartLocalUTC, dayEndLocalUTC) ==
        ~(eEnd < dayStartLocalUTC \/ startUTC > dayEndLocalUTC)
      day(tmL) ==
        overlap(endUTC,
                timegm_compat([tmL EXCEPT !.tm_hour = 0, !.tm_min = 0, !.tm_sec = 0]) - ofsSec,
                timegm_compat([tmL EXCEPT !.tm_hour = 23, !.tm_min = 59, !.tm_sec = 59]) - ofsSec)
  IN  day(gmtime_r(refUTC + ofsSec))

spansToday(startUTC, endUTC, refUTC, ofsSec) ==
  LET overlap(eEnd, dayStartLocalUTC, dayEndLocalUTC) ==
        ~(eEnd < dayStartLocalUTC \/ startUTC > dayEndLocalUTC)
      day(tmL) ==
        overlap(IF endUTC > startUTC THEN endUTC ELSE startUTC,
                timegm_compat([tmL EXCEPT !.tm_hour = 0, !.tm_min = 0, !.tm_sec = 0]) - ofsSec,
                timegm_compat([tmL EXCEPT !.tm_hour = 23, !.tm_min = 59, !.tm_sec = 59]) - ofsSec)
  IN  day(gmtime_r(refUTC + ofsSec))

RECURSIVE digitsOf(_)
digitsOf(t) ==
  IF Len(t) = 0 THEN ""
  ELSE (IF isDigit(charAt(t, 0)) THEN charAt(t, 0) ELSE "") \o digitsOf(SubSeq(t, 2, Len(t)))

RECURSIVE padTo6(_)
padTo6(td) == IF Len(td) < 6 THEN padTo6(td \o "0") ELSE td

\* parseICSTime(line, &x): ok is the value returned, val the value of x
\* afterwards, given that x held old before.  zone is the platform's zone,
\* which mktime applies.
parseICSTimeDate(v, old, zone) ==
  LET result(t) == [ok |-> t > 0, val |-> t]
  IN  IF Len(v) < 8 THEN [ok |-> FALSE, val |-> old]
      ELSE result(mktime([tm_year |-> toInt(substring(v, 0, 4)) - 1900,
                          tm_mon  |-> toInt(substring(v, 4, 6)) - 1,
                          tm_mday |-> toInt(substring(v, 6, 8)),
                          tm_hour |-> 0, tm_min |-> 0, tm_sec |-> 0], zone))

parseICSTimeTimed(v, tpos, zulu, old, zone) ==
  LET result(u) == [ok |-> u > 0, val |-> u]
      convert(tmv) == result(IF zulu THEN timegm_compat(tmv) ELSE mktime(tmv, zone))
      validate(YY, MO, DD, HH, MM, SS) ==
        IF MO < 1 \/ MO > 12 \/ DD < 1 \/ DD > 31 \/ HH > 23 \/ MM > 59 \/ SS > 60
          THEN [ok |-> FALSE, val |-> old]
          ELSE convert([tm_year |-> YY - 1900, tm_mon |-> MO - 1, tm_mday |-> DD,
                        tm_hour |-> HH, tm_min |-> MM, tm_sec |-> SS])
      fields(d, td) ==
        validate(toInt(substring(d, 0, 4)), toInt(substring(d, 4, 6)),
                 toInt(substring(d, 6, 8)), toInt(substring(td, 0, 2)),
                 toInt(substring(td, 2, 4)), toInt(substring(td, 4, 6)))
  IN  IF tpos < 8 THEN [ok |-> FALSE, val |-> old]
      ELSE fields(substring(v, 0, 8),
                  substring(padTo6(digitsOf(substringFrom(v, tpos + 1))), 0, 6))

parseICSTime(line, old, zone) ==
  LET branch(v, zulu, tpos) ==
        IF tpos < 0 THEN parseICSTimeDate(v, old, zone)
        ELSE parseICSTimeTimed(v, tpos, zulu, old, zone)
      strip(v, zulu) == branch(v, zulu, indexOf(v, "T"))
      value(v0, zulu) == strip(IF zulu THEN substring(v0, 0, Len(v0) - 1) ELSE v0, zulu)
      trimmed(v0) == value(v0, Len(v0) > 0 /\ charAt(v0, Len(v0) - 1) \in {"Z", "z"})
      after(colon) ==
        IF colon < 0 THEN [ok |-> FALSE, val |-> old]
        ELSE trimmed(trim(substringFrom(line, colon + 1)))
  IN  after(indexOf(line, ":"))

\* readPhysLine over a stream of physical lines, each ended by a line feed:
\* at most bufsz - 1 characters of the first line are taken, and what is left
\* of an over-long line stays at the head of the stream.
readPhysLine(s, bufsz) ==
  LET read(n, raw, rest) ==
        IF n = 0 /\ rest = <<>> THEN [ok |-> FALSE, buf |-> "", rest |-> rest]
        ELSE [ok |-> TRUE,
              buf |-> IF n > 0 /\ charAt(raw, n - 1) = "\r" THEN SubSeq(raw, 1, n - 1) ELSE raw,
              rest |-> rest]
      first(h) ==
        read(Min(Len(h), bufsz - 1),
             SubSeq(h, 1, Min(Len(h), bufsz - 1)),
             IF Len(h) < bufsz - 1 THEN Tail(s) ELSE <<SubSeq(h, bufsz, Len(h))>> \o Tail(s))
  IN  IF s = <<>> THEN [ok |-> FALSE, buf |-> "", rest |-> s] ELSE first(Head(s))

(***************************************************************************)
(* fetchAndParse: the parser over logical lines                            *)
(*                                                                         *)
(* A frame f holds the locals of one fetchAndParse call together with the  *)
(* response stream and the caller's buffer out.  f.ends is history: one    *)
(* entry per END:VEVENT that flushLogical handled, with the candidate      *)
(* event as it stood there and whether a row was written; f.heard is the   *)
(* logical lines readLogicalLines has delivered to its callback.           *)
(***************************************************************************)
CalendarEvent == [start |-> 0, end |-> 0, summary |-> "", location |-> ""]

StaleRow == [time |-> "stale", title |-> "stale"]

\* NewFrame with the parser starting inside an event
NewFrame_InEvent(stream, out, nowUTC, ofs) ==
  [stream |-> stream, logical |-> "", haveLogical |-> FALSE,
   inEvent |-> TRUE, inAlarm |-> FALSE, cancelled |-> FALSE, cur |-> CalendarEvent,
   nowUTC |-> nowUTC, ofs |-> ofs, filled |-> 0, stopEarly |-> FALSE,
   out |-> out, ends |-> <<>>, handed |-> 0, heard |-> <<>>]

NewFrame(stream, out, nowUTC, ofs) ==
  [stream |-> stream, logical |-> "", haveLogical |-> FALSE,
   inEvent |-> FALSE, inAlarm |-> FALSE, cancelled |-> FALSE, cur |-> CalendarEvent,
   nowUTC |-> nowUTC, ofs |-> ofs, filled |-> 0, stopEarly |-> FALSE,
   out |-> out, ends |-> <<>>, handed |-> 0, heard |-> <<>>]

\* mapToUiItem with the title copied whole
mapToUiItem_NoClamp(cur, ofs) ==
  LET withLoc(title, loc) == IF Len(loc) > 0 THEN title \o " (" \o loc \o ")" ELSE title
  IN  [time  |-> fmtHHMM_local_fromUTC(cur.start, ofs) \o "-"
                   \o fmtHHMM_local_fromUTC(IF cur.end > cur.start THEN cur.end ELSE cur.start,
                                            ofs),
       title |-> withLoc(icsUnescape(cur.summary), icsUnescape(cur.location))]

\* mapToUiItem with the right side formatted from cur.end as it is
mapToUiItem_EndAsGiven(cur, ofs) ==
  LET strncpy(title) ==
        IF TitleSize <= Len(title) THEN substring(title, 0, TitleSize - 1) ELSE title
      withLoc(title, loc) == IF Len(loc) > 0 THEN title \o " (" \o loc \o ")" ELSE title
  IN  [time  |-> fmtHHMM_local_fromUTC(cur.start, ofs) \o "-"
                   \o fmtHHMM_local_fromUTC(cur.end, ofs),
       title |-> strncpy(withLoc(icsUnescape(cur.summary), icsUnescape(cur.location)))]

\* the row written at out[filled] for the candidate event
mapToUiItem(cur, ofs) ==
  LET strncpy(title) ==
        IF TitleSize <= Len(title) THEN substring(title, 0, TitleSize - 1) ELSE title
      withLoc(title, loc) == IF Len(loc) > 0 THEN title \o " (" \o loc \o ")" ELSE title
  IN  [time  |-> fmtHHMM_local_fromUTC(cur.start, ofs) \o "-"
                   \o fmtHHMM_local_fromUTC(IF cur.end > cur.start THEN cur.end ELSE cur.start,
                                            ofs),
       title |-> strncpy(withLoc(icsUnescape(cur.summary), icsUnescape(cur.location)))]

\* emits with the cancelled flag left out
emits_IgnoreCancelled(f) ==
  /\ f.inEvent /\ f.cur.start > 0 /\ Len(f.cur.summary) > 0
  /\ spansToday(f.cur.start, f.cur.end, f.nowUTC, f.ofs)

emits(f) ==
  /\ f.inEvent /\ ~f.cancelled /\ f.cur.start > 0 /\ Len(f.cur.summary) > 0
  /\ spansToday(f.cur.start, f.cur.end, f.nowUTC, f.ofs)

\* endVEvent that writes every row at the head of the buffer
endVEvent_FirstRow(f) ==
  LET seen(em) == [inEvent |-> f.inEvent, start |-> f.cur.start, end |-> f.cur.end,
                   summary |-> f.cur.summary, emitted |-> em, row |-> f.filled]
      decide(em) ==
        IF em
          THEN [f EXCEPT !.out[1] = mapToUiItem(f.cur, f.ofs),
                         !.filled = f.filled + 1,
                         !.inEvent = FALSE,
                         !.ends = Append(f.ends, seen(em))]
          ELSE [f EXCEPT !.inEvent = FALSE, !.ends = Append(f.ends, seen(em))]
  IN  decide(emits(f))

endVEvent(f) ==
  LET seen(em) == [inEvent |-> f.inEvent, start |-> f.cur.start, end |-> f.cur.end,
                   summary |-> f.cur.summary, emitted |-> em, row |-> f.filled]
      decide(em) ==
        IF em
          THEN [f EXCEPT !.out[f.filled + 1] = mapToUiItem(f.cur, f.ofs),
                         !.filled = f.filled + 1,
                         !.inEvent = FALSE,
                         !.ends = Append(f.ends, seen(em))]
          ELSE [f EXCEPT !.inEvent = FALSE, !.ends = Append(f.ends, seen(em))]
  IN  decide(emits(f))

captureField(f, ln, zone) ==
  IF startsWith(ln, "DTSTART")
    THEN [f EXCEPT !.cur.start = parseICSTime(ln, f.cur.start, zone).val]
  ELSE IF startsWith(ln, "DTEND")
    THEN [f EXCEPT !.cur.end = parseICSTime(ln, f.cur.end, zone).val]
  ELSE IF startsWith(ln, "STATUS:")
    THEN (IF indexOfStr(ln, "CANCELLED") >= 0 THEN [f EXCEPT !.cancelled = TRUE] ELSE f)
  ELSE IF startsWith(ln, "SUMMARY:")
    THEN [f EXCEPT !.cur.summary = substringFrom(ln, 8)]
  ELSE IF startsWith(ln, "LOCATION:")
    THEN [f EXCEPT !.cur.location = substringFrom(ln, 9)]
  ELSE f

\* flushLogical that captures the lines of an alarm as the event's own
flushLogical_AlarmLinesCaptured(f, ln, zone) ==
  IF startsWith(ln, "BEGIN:VALARM") THEN [f EXCEPT !.inAlarm = TRUE]
  ELSE IF startsWith(ln, "END:VALARM") THEN [f EXCEPT !.inAlarm = FALSE]
  ELSE IF ln = "BEGIN:VEVENT"
    THEN [f EXCEPT !.inEvent = TRUE, !.cancelled = FALSE, !.cur = CalendarEvent]
  ELSE IF ln = "END:VEVENT" THEN endVEvent(f)
  ELSE IF ~f.inEvent THEN f
  ELSE captureField(f, ln, zone)

flushLogical(f, ln, zone) ==
  IF startsWith(ln, "BEGIN:VALARM") THEN [f EXCEPT !.inAlarm = TRUE]
  ELSE IF startsWith(ln, "END:VALARM") THEN [f EXCEPT !.inAlarm = FALSE]
  ELSE IF f.inAlarm THEN f
  ELSE IF ln = "BEGIN:VEVENT"
    THEN [f EXCEPT !.inEvent = TRUE, !.cancelled = FALSE, !.cur = CalendarEvent]
  ELSE IF ln = "END:VEVENT" THEN endVEvent(f)
  ELSE IF ~f.inEvent THEN f
  ELSE captureField(f, ln, zone)

\* onLine that stops at the caller's capacity only
onLine_NoThreshold(f, l, maxn, zone) ==
  LET check(g) == [g EXCEPT !.stopEarly = (g.filled >= maxn)]
  IN  IF ~f.stopEarly
        THEN check(flushLogical([f EXCEPT !.handed = f.handed + 1,
                                          !.heard = Append(f.heard, l)], l, zone))
        ELSE [f EXCEPT !.heard = Append(f.heard, l)]

\* the callback fetchAndParse hands to readLogicalLines
onLine(f, l, maxn, zone) ==
  LET check(g) == [g EXCEPT !.stopEarly = (g.filled >= maxn \/ g.filled >= kUiNeededItems)]
  IN  IF ~f.stopEarly
        THEN check(flushLogical([f EXCEPT !.handed = f.handed + 1,
                                          !.heard = Append(f.heard, l)], l, zone))
        ELSE [f EXCEPT !.heard = Append(f.heard, l)]

\* one turn of the while loop of readLogicalLines, for a physical line that
\* readPhysLine delivered
loopBody(f, r, maxn, zone) ==
  LET start(f1, line) == [f1 EXCEPT !.logical = line, !.haveLogical = TRUE]
      turn(f0, line) ==
        IF Len(line) > 0 /\ charAt(line, 0) \in {" ", "\t"}
          THEN IF ~f0.haveLogical
                 THEN [f0 EXCEPT !.logical = substringFrom(line, 1), !.haveLogical = TRUE]
                 ELSE [f0 EXCEPT !.logical = f0.logical \o substringFrom(line, 1)]
          ELSE start(IF f0.haveLogical THEN onLine(f0, f0.logical, maxn, zone) ELSE f0, line)
  IN  turn([f EXCEPT !.stream = r.rest], r.buf)

\* after the loop: the pending logical line is delivered
afterLoop(f, maxn, zone) ==
  IF f.haveLogical THEN onLine(f, f.logical, maxn, zone) ELSE f

\* readLogicalLines run to the end of the stream
RECURSIVE readLogicalLines(_, _, _)
readLogicalLines(f, maxn, zone) ==
  LET while(r) ==
        IF r.ok THEN readLogicalLines(loopBody(f, r, maxn, zone), maxn, zone)
        ELSE afterLoop([f EXCEPT !.stream = r.rest], maxn, zone)
  IN  while(readPhysLine(f.stream, kLineBuf))

(***************************************************************************)
(* The environment: calendars the server holds, the clock, the zone        *)
(***************************************************************************)
\* Fragments a served document is made of: VEVENT blocks, and what a range
\* request leaves of a block it cut.  Today is 2024-01-15 wherever the zone
\* puts noon UTC of that day.
Fragment(b) ==
  CASE b = "utc" ->
         <<"BEGIN:VEVENT\r", "DTSTART:20240115T143000Z\r", "DTEND:20240115T153000Z\r",
           "SUMMARY:Lunch\r", "LOCATION:Cafe\r", "END:VEVENT\r">>
    [] b = "local" ->
         <<"BEGIN:VEVENT", "DTSTART;TZID=Europe/Berlin:20240115T090000",
           "SUMMARY:Standup", "BEGIN:VALARM", "TRIGGER:-PT10M", "SUMMARY:Alarm",
           "DTSTART:20200101T000000Z", "END:VALARM", "END:VEVENT">>
    [] b = "allday" ->
         <<"BEGIN:VEVENT", "DTSTART;VALUE=DATE:20240115", "SUMMARY:Holiday", "END:VEVENT">>
    [] b = "late" ->
         <<"BEGIN:VEVENT", "STATUS:CONFIRMED", "SUMMARY:Late", " Shift",
           "DTEND:20240115T233000Z", "DTSTART:20240115T230000Z", "END:VEVENT">>
    [] b = "dull" ->
         <<"BEGIN:VCALENDAR", "VERSION:2.0",
           "BEGIN:VEVENT", "DTSTART:20240114T100000Z", "DTEND:20240114T110000Z",
           "SUMMARY:Past", "END:VEVENT",
           "BEGIN:VEVENT", "DTSTART:20240115T120000Z", "SUMMARY:", "END:VEVENT">>
    [] b = "cancelled" ->
         <<"BEGIN:VEVENT", "STATUS:CANCELLED", "DTSTART:20240115T100000Z",
           "SUMMARY:Off", "END:VEVENT",
           "BEGIN:VEVENT", "DTSTART:20240115T100000Z", "SUMMARY:Off2",
           "STATUS:CANCELLED", "END:VEVENT">>
    [] b = "badTimed" ->
         <<"BEGIN:VEVENT", "DTSTART:20241301T999999Z", "SUMMARY:BadMonth", "END:VEVENT",
           "BEGIN:VEVENT", "DTSTART;TZID=Europe/Berlin:20240115T990000", "SUMMARY:BadHour",
           "END:VEVENT",
           "BEGIN:VEVENT", "DTSTART:20240100T100000Z", "SUMMARY:BadDay", "END:VEVENT">>
    [] b = "badDate" ->
         <<"BEGIN:VEVENT", "DTSTART;VALUE=DATE:20231315", "SUMMARY:BadDate", "END:VEVENT">>
    [] b = "badSecond" ->
         <<"BEGIN:VEVENT", "DTSTART:20240115T100000Z",
           "DTSTART;TZID=Europe/Berlin:20240132T100000",
           "DTEND:20241315T110000Z", "SUMMARY:Kept", "END:VEVENT">>
    [] b = "cutHead" ->
         <<" continued", "END:VALARM", "DTSTART:20240115T080000Z", "SUMMARY:Partial",
           "END:VEVENT">>
    [] b = "todo" ->
         <<"BEGIN:VTODO", "SUMMARY:Todo", "DTSTART:20240115T070000Z", "STATUS:CANCELLED",
           "BEGIN:VALARM", "TRIGGER:-PT5M", "END:VALARM", "END:VTODO">>
    [] b = "strayAlarm" ->
         <<"BEGIN:VALARM", "TRIGGER:-PT5M">>
    [] b = "alarmFirst" ->
         <<"BEGIN:VEVENT", "BEGIN:VALARM", "SUMMARY:Ring", "DTSTART:20240115T010000Z",
           "STATUS:CANCELLED", "LOCATION:Bell", "END:VALARM",
           "DTSTART:20240115T180000Z", "SUMMARY:Dinner", "END:VEVENT">>
    [] OTHER -> <<b>>     \* any other name is a physical line of its own

Events == {"utc", "local", "allday", "late", "dull", "cancelled", "badTimed", "badDate",
           "badSecond"}

\* what a range request leaves of the event it cut
CutHeads == {"cutHead"}

\* fragments all of whose events have a malformed value as their only DTSTART
Malformed == {"badTimed", "badDate"}

RECURSIVE Flatten(_)
Flatten(bs) == IF bs = <<>> THEN <<>> ELSE Fragment(Head(bs)) \o Flatten(Tail(bs))

RECURSIVE Repeat(_, _)
Repeat(bs, n) == IF n <= 0 THEN <<>> ELSE bs \o Repeat(bs, n - 1)

\* longest run of fragments in a mixed document
MaxBlocks == 2

\* how often a busy calendar repeats its events
MaxRepeat == 4

\* the largest capacity a caller passes
MaxCap == 7

SeqsUpTo(S, n) == UNION {[1..k -> S] : k \in 0..n}

\* a mixed calendar: a few events of any kind, whole or, as a range request
\* serves it, behind what is left of the event the range cut
MixedDocs ==
  SeqsUpTo(Events, MaxBlocks)
    \cup {<<c>> \o t : c \in CutHeads, t \in SeqsUpTo(Events, MaxBlocks - 1)}

\* a busy calendar: many events of today, more than one screen of them
BusyDocs ==
  {Repeat(body, n) : body \in SeqsUpTo({"utc", "allday", "dull"}, MaxBlocks),
                     n \in 1..MaxRepeat}

\* a calendar with alarms: events whose VALARM holds fields of its own, a
\* VTODO with an alarm, and a BEGIN:VALARM that no END:VALARM follows
AlarmKinds == {"utc", "local", "alarmFirst", "cancelled", "todo", "strayAlarm"}

AlarmDocs == SeqsUpTo(AlarmKinds, MaxBlocks)

\* longest run of physical lines after the first event of a folded document
MaxLines == 3

\* physical lines of a folded document: a property line, continuations that
\* open with a space or a tab, an empty line, a line holding one space, and
\* a line and its continuation that end in CR LF
LineKinds == {"SUMMARY:Lu", " nch", "\tx", "", " ", "SUMMARY:Mo\r", " on\r"}

\* a folded document: lines of any kind, alone or behind an event of today
FoldedDocs ==
  {head \o body : head \in {<<>>, <<"utc">>}, body \in SeqsUpTo(LineKinds, MaxLines)}

\* by how many characters a physical line may exceed what the buffer takes
MaxOver == 2

Twice(h) == h \o h

RECURSIVE Pad(_)
Pad(n) == IF n = 0 THEN "" ELSE IF n % 2 = 0 THEN Twice(Pad(n \div 2)) ELSE "x" \o Pad(n - 1)

\* a DESCRIPTION line of n characters
LongLine(n) == "DESCRIPTION:" \o Pad(n - 12)

\* documents with one long line: an event of today whose DESCRIPTION fills
\* the buffer exactly or exceeds it, before or after its other fields, and
\* the line alone
LongDocs ==
  UNION {{<<"BEGIN:VEVENT", LongLine(n), "DTSTART:20240115T143000Z", "SUMMARY:Lunch",
            "END:VEVENT">>,
          <<"BEGIN:VEVENT", "DTSTART:20240115T143000Z", "SUMMARY:Lunch", LongLine(n),
            "END:VEVENT">>,
          <<LongLine(n)>>} : n \in (kLineBuf - 1)..(kLineBuf - 1 + MaxOver)}

\* instants in UTC form around the edges of 2024-01-15, as the zones see it
Stamps ==
  {"20240114T215959Z", "20240114T220000Z", "20240114T230000Z", "20240114T235900Z",
   "20240114T235959Z", "20240115T000000Z", "20240115T143000Z", "20240115T215959Z",
   "20240115T220000Z", "20240115T230000Z", "20240115T233000Z", "20240115T235959Z",
   "20240116T000000Z", "20240116T003000Z"}

\* one event from start to end, or with no DTEND when end is ""
Slot(start, end) ==
  <<"BEGIN:VEVENT", "DTSTART:" \o start>>
    \o (IF end = "" THEN <<>> ELSE <<"DTEND:" \o end>>)
    \o <<"SUMMARY:Slot", "END:VEVENT">>

\* a calendar of one event that starts and ends at any of the instants
SlotDocs == {Slot(st, en) : st \in Stamps, en \in Stamps \cup {""}}

\* longest text of escapes
MaxText == 3

\* by how many characters a SUMMARY may exceed the title buffer
MaxExcess == 1

\* the characters icsUnescape tells apart, and one it does not
EscChars == {"\\", "n", "N", ",", ";", "a"}

RECURSIVE TextsOf(_)
TextsOf(n) ==
  IF n = 0 THEN {""} ELSE {""} \cup {c \o t : c \in EscChars, t \in TextsOf(n - 1)}

EscTexts == TextsOf(MaxText)

\* A\, B\; C\\n D
SampleText == "A\\, B\\; C\\\\n D"

\* summaries about as long as the title buffer, one of them with an escape
\* where the buffer ends
LongSummaries ==
  {Pad(n) : n \in (TitleSize - 4)..(TitleSize + MaxExcess)} \cup {Pad(TitleSize - 2) \o "\\,y"}

Locations == {"", "L", Pad(TitleSize)}

\* one event of today with the summary and the location
Titled(su, lo) ==
  <<"BEGIN:VEVENT", "DTSTART:20240115T143000Z", "SUMMARY:" \o su, "LOCATION:" \o lo,
    "END:VEVENT">>

TitledDocs ==
  {Titled(t, t) : t \in EscTexts}
    \cup {Titled(su, lo) : su \in LongSummaries, lo \in Locations}
    \cup {Titled(SampleText, "")}

Sites == {"mixed", "busy", "alarm", "lines", "long", "clock", "texts"}

DocsOf(s) ==
  CASE s = "busy" -> BusyDocs
    [] s = "alarm" -> AlarmDocs
    [] s = "lines" -> FoldedDocs
    [] s = "long" -> LongDocs
    [] s = "clock" -> SlotDocs
    [] s = "texts" -> TitledDocs
    [] OTHER -> MixedDocs

CapacitiesOf(s) ==
  CASE s = "busy" -> {1, kUiNeededItems, MaxCap}
    [] s = "mixed" -> {-1, 0, 1, MaxCap}
    [] OTHER -> {1, MaxCap}

\* noon UTC of 2024-01-15, read from the platform clock
Clock == {daysFromCivil(2024, 1, 15) * 86400 + 12 * 3600}

\* the first second, noon and the last half hour of 2024-01-15 in UTC
DayClock ==
  {daysFromCivil(2024, 1, 15) * 86400 + h : h \in {0, 12 * 3600, 23 * 3600 + 1800}}

ClockOf(s) == IF s = "clock" THEN DayClock ELSE Clock

Zones == {0, 7200}

Urls == {"", "https://calendar.example/basic.ics", "calendar.example/basic.ics"}

\* The readings of time() the clock widget can get: a base instant half a
\* minute before a full hour, two hours before midnight UTC on the last day
\* of a leap year, and instants the same minute, the next minutes, an hour
\* and a day later.
Midnight == daysFromCivil(2025, 1, 1) * 86400

Instants ==
  {Midnight - 7230 + d : d \in {0, 29, 30, 89, 90, 3600, 86400}}

\* The seconds that can pass between the time() of tick and the time() of
\* updateNow.
MaxLag == 1

\* HTTPClient::begin: the URL must name the protocol http or https
httpBegin(url) ==
  LET protocol(index) == index >= 0 /\ substring(url, 0, index) \in {"http", "https"}
  IN  protocol(indexOf(url, ":"))

\* HTTPClient::GET: a status, or a negative client error
Codes == {200, 206, 404, 500, -1}

(***************************************************************************)
(* State                                                                   *)
(***************************************************************************)
VARIABLES
  site,          \* which calendar the server holds
  zone,          \* the platform's offset from UTC, in seconds
  wifi,          \* WiFi.status() == WL_CONNECTED
  url_,          \* IcsCalendarProvider::url_
  pc,            \* "idle", "get", "read", "parsed", "done": where readToday stands
  useRangeTail,  \* the argument of the fetchAndParse call in progress
  maxn,          \* readToday's argument
  outNull,       \* readToday's argument out is a null pointer
  requests,      \* the GETs issued so far, each [range, code]
  doc,           \* the fragments of the document being streamed
  fp,            \* the frame of the fetchAndParse call in progress
  filledTail,    \* what the tail fetchAndParse returned; -2 before it returns
  filledFull,    \* what the full fetchAndParse returned; -2 before it returns
  ret,           \* what readToday returned; -2 before it returns
  systime,       \* what time() returns
  _lastMinute,   \* EpdClockWidget::_lastMinute
  _lastYday,     \* EpdClockWidget::_lastYday
  painted,       \* the struct tm whose date and time the panel shows
  lastCall       \* history: the widget call made last

providerVars == <<site, wifi, url_, pc, useRangeTail, maxn, outNull, requests, doc,
                  fp, filledTail, filledFull, ret>>

widgetVars == <<systime, _lastMinute, _lastYday, painted, lastCall>>

vars == <<zone, providerVars, widgetVars>>

\* The panel before the widget painted: no time.
Blank ==
  [tm_year |-> -1, tm_mon |-> -1, tm_mday |-> -1, tm_hour |-> -1, tm_min |-> -1,
   tm_sec |-> -1, tm_yday |-> -1]

\* No widget call yet.
NoCall == [op |-> "none", seen |-> Blank, before |-> Blank, repainted |-> FALSE]

IdleFrame == NewFrame(<<>>, <<>>, 0, 0)

\* The widget is a function-local static object: its members start zeroed.
InitWidgetVars ==
  /\ _lastMinute = 0
  /\ _lastYday = 0
  /\ painted = Blank
  /\ lastCall = NoCall

InitProvider ==
  /\ wifi \in BOOLEAN
  /\ url_ = ""
  /\ pc = "idle"
  /\ useRangeTail = TRUE
  /\ maxn = 0
  /\ outNull = TRUE
  /\ requests = <<>>
  /\ doc = <<>>
  /\ fp = IdleFrame
  /\ filledTail = -2
  /\ filledFull = -2
  /\ ret = -2

InitCommon ==
  /\ systime = Midnight - 7230
  /\ InitWidgetVars
  /\ InitProvider

Init == site = "mixed" /\ zone \in Zones /\ InitCommon

InitBusy == site = "busy" /\ zone \in Zones /\ InitCommon

InitAlarm == site = "alarm" /\ zone \in Zones /\ InitCommon

InitLines == site = "lines" /\ zone = 0 /\ InitCommon

InitLong == site = "long" /\ zone \in Zones /\ InitCommon

InitClock == site = "clock" /\ zone \in Zones /\ InitCommon

InitTexts == site = "texts" /\ zone \in Zones /\ InitCommon

(***************************************************************************)
(* IcsCalendarProvider                                                     *)
(***************************************************************************)
setUrl ==
  /\ pc = "idle"
  /\ \E u \in Urls : url_' = u
  /\ UNCHANGED <<outNull, widgetVars>>
  /\ UNCHANGED <<site, zone, wifi, pc, useRangeTail, maxn, requests, doc, fp,
                 filledTail, filledFull, ret>>

\* The buffer as the caller passes it: n rows of whatever was there before,
\* none behind a null pointer.
CallerBuffer(n, isNull) == IF isNull THEN <<>> ELSE [i \in 1..n |-> StaleRow]

\* readToday with the test of the WiFi status left out
readToday_NoWifiTest ==
  /\ pc = "idle"
  /\ \E n \in CapacitiesOf(site), isNull \in BOOLEAN :
       /\ maxn' = n
       /\ outNull' = isNull
       /\ fp' = [fp EXCEPT !.out = CallerBuffer(n, isNull)]
       /\ IF isNull \/ n <= 0 \/ url_ = ""
            THEN pc' = "done" /\ ret' = 0
            ELSE pc' = "get" /\ ret' = ret
  /\ useRangeTail' = TRUE
  /\ UNCHANGED widgetVars
  /\ UNCHANGED <<site, zone, wifi, url_, requests, doc, filledTail, filledFull>>

\* readToday up to its first fetchAndParse: it returns 0 at once on a null
\* buffer, no room, no WiFi or no URL, and leaves the buffer as it is.
readToday ==
  /\ pc = "idle"
  /\ \E n \in CapacitiesOf(site), isNull \in BOOLEAN :
       /\ maxn' = n
       /\ outNull' = isNull
       /\ fp' = [fp EXCEPT !.out = CallerBuffer(n, isNull)]
       /\ IF isNull \/ n <= 0 \/ ~wifi \/ url_ = ""
            THEN pc' = "done" /\ ret' = 0
            ELSE pc' = "get" /\ ret' = ret
  /\ useRangeTail' = TRUE
  /\ UNCHANGED widgetVars
  /\ UNCHANGED <<site, zone, wifi, url_, requests, doc, filledTail, filledFull>>

\* afterFetch with the fallback left out: an empty tail ends the call
afterFetch_NoFallback(filled) ==
  /\ doc' = <<>>
  /\ fp' = [IdleFrame EXCEPT !.out = fp.out]
  /\ filledTail' = filled
  /\ filledFull' = filledFull
  /\ pc' = "done"
  /\ ret' = (IF filled < 0 THEN 0 ELSE filled)
  /\ useRangeTail' = useRangeTail

\* afterFetch with "filled > 0" tested alone: a failed tail falls back too
afterFetch_FallbackOnFailure(filled) ==
  /\ doc' = <<>>
  /\ fp' = [IdleFrame EXCEPT !.out = fp.out]
  /\ IF useRangeTail
       THEN /\ filledTail' = filled
            /\ filledFull' = filledFull
            /\ IF filled > 0
                 THEN pc' = "done" /\ ret' = filled /\ useRangeTail' = useRangeTail
                 ELSE pc' = "get" /\ ret' = ret /\ useRangeTail' = FALSE
       ELSE /\ filledFull' = filled
            /\ filledTail' = filledTail
            /\ pc' = "done"
            /\ ret' = (IF filled < 0 THEN 0 ELSE filled)
            /\ useRangeTail' = useRangeTail

\* afterFetch with the failed tail's -1 handed on to the caller
afterFetch_RawTail(filled) ==
  /\ doc' = <<>>
  /\ fp' = [IdleFrame EXCEPT !.out = fp.out]
  /\ IF useRangeTail
       THEN /\ filledTail' = filled
            /\ filledFull' = filledFull
            /\ IF filled = 0
                 THEN pc' = "get" /\ ret' = ret /\ useRangeTail' = FALSE
                 ELSE pc' = "done" /\ ret' = filled /\ useRangeTail' = useRangeTail
       ELSE /\ filledFull' = filled
            /\ filledTail' = filledTail
            /\ pc' = "done"
            /\ ret' = (IF filled < 0 THEN 0 ELSE filled)
            /\ useRangeTail' = useRangeTail

\* afterFetch with the fallback's result returned as it is
afterFetch_RawFull(filled) ==
  /\ doc' = <<>>
  /\ fp' = [IdleFrame EXCEPT !.out = fp.out]
  /\ IF useRangeTail
       THEN /\ filledTail' = filled
            /\ filledFull' = filledFull
            /\ IF filled >= 0
                 THEN IF filled > 0
                        THEN pc' = "done" /\ ret' = filled /\ useRangeTail' = useRangeTail
                        ELSE pc' = "get" /\ ret' = ret /\ useRangeTail' = FALSE
                 ELSE pc' = "done" /\ ret' = 0 /\ useRangeTail' = useRangeTail
       ELSE /\ filledFull' = filled
            /\ filledTail' = filledTail
            /\ pc' = "done"
            /\ ret' = filled
            /\ useRangeTail' = useRangeTail

\* readToday from the return of a fetchAndParse that gave filled
afterFetch(filled) ==
  /\ doc' = <<>>
  /\ fp' = [IdleFrame EXCEPT !.out = fp.out]
  /\ IF useRangeTail
       THEN /\ filledTail' = filled
            /\ filledFull' = filledFull
            /\ IF filled >= 0
                 THEN IF filled > 0
                        THEN pc' = "done" /\ ret' = filled /\ useRangeTail' = useRangeTail
                        ELSE pc' = "get" /\ ret' = ret /\ useRangeTail' = FALSE
                 ELSE pc' = "done" /\ ret' = 0 /\ useRangeTail' = useRangeTail
       ELSE /\ filledFull' = filled
            /\ filledTail' = filledTail
            /\ pc' = "done"
            /\ ret' = (IF filled < 0 THEN 0 ELSE filled)
            /\ useRangeTail' = useRangeTail

\* fetchAndParse: http.begin refuses the URL, nothing is sent
beginFails ==
  /\ pc = "get"
  /\ ~httpBegin(url_)
  /\ afterFetch(-1)
  /\ UNCHANGED <<outNull, widgetVars>>
  /\ UNCHANGED <<site, zone, wifi, url_, maxn, requests>>

\* fetchAndParse: the GET is sent and fails, or answers with another status
getFails ==
  /\ pc = "get"
  /\ httpBegin(url_)
  /\ \E code \in Codes \ {200, 206} :
       requests' = Append(requests, [range |-> useRangeTail, code |-> code])
  /\ afterFetch(-1)
  /\ UNCHANGED <<outNull, widgetVars>>
  /\ UNCHANGED <<site, zone, wifi, url_, maxn>>

\* fetchAndParse: the GET is answered with 200 or 206 and a document; the
\* locals are set up for the parse
getStreams ==
  /\ pc = "get"
  /\ httpBegin(url_)
  /\ \E code \in {200, 206}, d \in DocsOf(site), now \in ClockOf(site) :
       /\ requests' = Append(requests, [range |-> useRangeTail, code |-> code])
       /\ doc' = d
       /\ fp' = NewFrame(Flatten(d), fp.out, now, currentLocalOffsetSeconds(now, zone))
  /\ pc' = "read"
  /\ UNCHANGED <<outNull, widgetVars>>
  /\ UNCHANGED <<site, zone, wifi, url_, useRangeTail, maxn, filledTail, filledFull, ret>>

\* readLogicalLines: one turn of the loop
readLine ==
  /\ pc = "read"
  /\ LET while(r) == r.ok /\ fp' = loopBody(fp, r, maxn, zone)
     IN  while(readPhysLine(fp.stream, kLineBuf))
  /\ UNCHANGED <<outNull, widgetVars>>
  /\ UNCHANGED <<site, zone, wifi, url_, pc, useRangeTail, maxn, requests, doc,
                 filledTail, filledFull, ret>>

\* readLogicalLines: the stream has ended and the pending line is delivered
endOfStream ==
  /\ pc = "read"
  /\ LET while(r) == ~r.ok /\ fp' = afterLoop([fp EXCEPT !.stream = r.rest], maxn, zone)
     IN  while(readPhysLine(fp.stream, kLineBuf))
  /\ pc' = "parsed"
  /\ UNCHANGED <<outNull, widgetVars>>
  /\ UNCHANGED <<site, zone, wifi, url_, useRangeTail, maxn, requests, doc,
                 filledTail, filledFull, ret>>

\* fetchAndParse: http.end, and filled is returned to readToday
fetchReturns ==
  /\ pc = "parsed"
  /\ afterFetch(fp.filled)
  /\ UNCHANGED <<outNull, widgetVars>>
  /\ UNCHANGED <<site, zone, wifi, url_, maxn, requests>>

Next ==
  \/ setUrl
  \/ readToday
  \/ beginFails
  \/ getFails
  \/ getStreams
  \/ readLine
  \/ endOfStream
  \/ fetchReturns

Spec == Init /\ [][Next]_vars

SpecBusy == InitBusy /\ [][Next]_vars

SpecAlarm == InitAlarm /\ [][Next]_vars

SpecLines == InitLines /\ [][Next]_vars

SpecLong == InitLong /\ [][Next]_vars

SpecClock == InitClock /\ [][Next]_vars

SpecTexts == InitTexts /\ [][Next]_vars

(***************************************************************************)
(* EpdClockWidget.  The widget and the calendar provider share no state    *)
(* but the platform's clock and time zone, so the widget runs in a         *)
(* specification of its own.                                               *)
(***************************************************************************)
\* updateNow reads the clock itself, formats that time onto the panel and
\* records its minute and day of the year; force is not read.
updateNow(force) ==
  LET paint(lt) ==
        /\ painted' = lt
        /\ _lastMinute' = lt.tm_min
        /\ _lastYday' = lt.tm_yday
  IN  paint(localtime_r(systime', zone))

begin ==
  /\ systime' = systime
  /\ updateNow(TRUE)
  /\ lastCall' = [op |-> "begin", seen |-> Blank, before |-> painted, repainted |-> TRUE]
  /\ UNCHANGED <<zone, providerVars>>

\* A tick that compares the minute alone.
tick_MinuteOnly ==
  /\ IF localtime_r(systime, zone).tm_min # _lastMinute
       THEN /\ \E lag \in 0..MaxLag :
                 /\ systime + lag \in Instants
                 /\ systime' = systime + lag
            /\ updateNow(FALSE)
            /\ lastCall' = [op |-> "tick", seen |-> localtime_r(systime, zone),
                            before |-> painted, repainted |-> TRUE]
       ELSE /\ lastCall' = [op |-> "tick", seen |-> localtime_r(systime, zone),
                            before |-> painted, repainted |-> FALSE]
            /\ UNCHANGED <<systime, _lastMinute, _lastYday, painted>>
  /\ UNCHANGED <<zone, providerVars>>

\* tick reads the clock and calls updateNow, which reads it again, when the
\* minute or the day of the year is not the recorded one.
tick ==
  /\ IF \/ localtime_r(systime, zone).tm_min # _lastMinute
        \/ localtime_r(systime, zone).tm_yday # _lastYday
       THEN /\ \E lag \in 0..MaxLag :
                 /\ systime + lag \in Instants
                 /\ systime' = systime + lag
            /\ updateNow(FALSE)
            /\ lastCall' = [op |-> "tick", seen |-> localtime_r(systime, zone),
                            before |-> painted, repainted |-> TRUE]
       ELSE /\ lastCall' = [op |-> "tick", seen |-> localtime_r(systime, zone),
                            before |-> painted, repainted |-> FALSE]
            /\ UNCHANGED <<systime, _lastMinute, _lastYday, painted>>
  /\ UNCHANGED <<zone, providerVars>>

\* The clock runs on.
timePasses ==
  /\ \E t \in Instants : t > systime /\ systime' = t
  /\ UNCHANGED <<zone, providerVars, _lastMinute, _lastYday, painted, lastCall>>

InitWidget ==
  /\ site = "mixed"
  /\ zone \in Zones
  /\ systime \in Instants
  /\ InitWidgetVars
  /\ InitProvider

NextWidget ==
  \/ begin
  \/ tick
  \/ timePasses

SpecWidget == InitWidget /\ [][NextWidget]_vars

(***************************************************************************)
(* Properties                                                              *)
(***************************************************************************)
Succeeded(r) == r.code \in {200, 206}

\* C1: a tail answered with 200 or 206 that parses to zero rows is followed
\* by exactly one unranged request, whose row count is returned; a tail that
\* parses to a row is followed by none and its count is returned.  The
\* ranged request comes first and there are at most two requests.
C1_TailThenFull ==
  /\ Len(requests) <= 2
  /\ \A i \in 1..Len(requests) : requests[i].range = (i = 1)
  /\ (Len(requests) = 2 => Succeeded(requests[1]))
  /\ (pc = "done" /\ filledTail = 0) =>
       /\ Len(requests) = 2
       /\ Succeeded(requests[1])
       /\ ~requests[2].range
       /\ (Succeeded(requests[2]) => filledFull >= 0 /\ ret = filledFull)
  /\ (pc = "done" /\ filledTail > 0) =>
       /\ Len(requests) = 1
       /\ Succeeded(requests[1])
       /\ ret = filledTail

C1_Witness ==
  /\ pc = "done"
  /\ filledTail = 0
  /\ Len(requests) = 2
  /\ requests[1].code = 206
  /\ filledFull > 0
  /\ ret = filledFull

\* C2: when the tail transfer fails (http.begin refuses, the connection
\* cannot be opened, or the status is neither 200 nor 206) no full-document
\* request is issued and the call is over.
C2_FailedTailNoFallback ==
  /\ filledTail = -1 => pc = "done" /\ \A i \in 1..Len(requests) : requests[i].range
  /\ (Len(requests) >= 1 /\ ~Succeeded(requests[1])) => Len(requests) = 1 /\ filledTail = -1

C2_Witness ==
  /\ pc = "done"
  /\ requests = <<[range |-> TRUE, code |-> 404]>>
  /\ filledTail = -1

\* C3 as claimed: a transport failure of the tail triggers the full-document
\* request.
C3_FailedTailFallsBack ==
  (pc = "done" /\ filledTail = -1 /\ Len(requests) >= 1) =>
    \E i \in 1..Len(requests) : ~requests[i].range

\* C3 as amended: a transport failure of the tail ends the call with zero
\* rows and no fallback; the fallback follows only a tail that succeeded
\* with zero rows, and when that fallback fails the call reports zero rows.
C3_FailureReportsZero ==
  pc = "done" =>
    /\ filledTail = -1 => ret = 0 /\ filledFull = -2 /\ Len(requests) <= 1
    /\ filledFull = -1 => ret = 0 /\ filledTail = 0 /\ Len(requests) = 2

C3_Witness ==
  /\ pc = "done"
  /\ requests = <<[range |-> TRUE, code |-> -1]>>
  /\ ret = 0

\* C6: whatever the tail and the full request do, readToday returns a count
\* from 0 to min(maxn, 6), never a negative one.
C6_ReturnInRange ==
  pc = "done" => ret >= 0 /\ ret <= Max(0, Min(maxn, kUiNeededItems))

C6_Witness ==
  /\ pc = "done"
  /\ filledTail = 0
  /\ filledFull = -1
  /\ Len(requests) = 2
  /\ ret = 0

(***************************************************************************)
(* What the documents say, read off their text                             *)
(***************************************************************************)
StripCR(l) ==
  IF Len(l) > 0 /\ charAt(l, Len(l) - 1) = "\r" THEN SubSeq(l, 1, Len(l) - 1) ELSE l

EndLines(lines) == {i \in 1..Len(lines) : StripCR(lines[i]) = "END:VEVENT"}

\* the physical line of the k-th END:VEVENT
KthEnd(lines, k) ==
  CHOOSE i \in EndLines(lines) : Cardinality({j \in EndLines(lines) : j <= i}) = k

\* the lines of the event that the k-th END:VEVENT closes: those after the
\* BEGIN:VEVENT or END:VEVENT before it
EventLines(lines, k) ==
  LET e == KthEnd(lines, k)
      marks == {j \in 1..(e - 1) : StripCR(lines[j]) \in {"BEGIN:VEVENT", "END:VEVENT"}}
      b == IF marks = {} THEN 0 ELSE CHOOSE j \in marks : \A m \in marks : m <= j
  IN  {StripCR(lines[j]) : j \in (b + 1)..(e - 1)}

HasBegin(lines, k) ==
  LET e == KthEnd(lines, k)
      marks == {j \in 1..(e - 1) : StripCR(lines[j]) \in {"BEGIN:VEVENT", "END:VEVENT"}}
  IN  marks # {} /\ StripCR(lines[CHOOSE j \in marks : \A m \in marks : m <= j]) = "BEGIN:VEVENT"

CancelledIn(ev) == \E l \in ev : startsWith(l, "STATUS") /\ indexOfStr(l, "CANCELLED") >= 0

SummaryIn(ev) == \E l \in ev : startsWith(l, "SUMMARY:") /\ Len(l) > 8

\* the local day of now is [dayStart, dayStart + 86399]
OverlapsLocalDay(start, end, now, ofs) ==
  LET dayStart == ((now + ofs) \div 86400) * 86400 - ofs
  IN  Max(end, start) >= dayStart /\ start <= dayStart + 86399

\* the events of a busy calendar that fall on today, and their rows
TodayEvents == {"utc", "allday"}

IsTodayEvent(b) == b \in TodayEvents

ExpectedRow(b, z) ==
  IF b = "utc"
    THEN [time |-> IF z = 0 THEN "14:30-15:30" ELSE "16:30-17:30", title |-> "Lunch (Cafe)"]
    ELSE [time |-> "00:00-00:00", title |-> "Holiday"]

BudgetMet(f) == f.filled >= maxn \/ f.filled >= kUiNeededItems

\* C4: one pass over a document with n qualifying events and capacity
\* maxn >= 1 emits exactly min(n, maxn, 6) rows: the first of them in document
\* order, row i for the i-th qualifying event.
C4_FirstRowsInDocumentOrder ==
  (pc = "parsed" /\ site = "busy") =>
    LET q == SelectSeq(doc, IsTodayEvent)
        k == Min(Len(q), Min(maxn, 6))
    IN  /\ fp.filled = k
        /\ \A i \in 1..k : fp.out[i] = ExpectedRow(q[i], zone)
        /\ \A i \in (k + 1)..Len(fp.out) : fp.out[i] = StaleRow

C4_Witness ==
  /\ pc = "parsed"
  /\ site = "busy"
  /\ maxn > 6
  /\ Len(SelectSeq(doc, IsTodayEvent)) > 6
  /\ fp.filled = 6
  /\ fp.out[1] # fp.out[2]

\* C5 as claimed: once the filled rows reach the capacity or the threshold,
\* no further physical line is read from the stream and no further logical
\* line is handed to the parser in that pass.
C5_LoopStopsAtBudget ==
  [][(pc = "read" /\ BudgetMet(fp)) => (fp'.stream = fp.stream /\ fp'.handed = fp.handed)]_vars

\* C7: a row is written at an END:VEVENT only for an event that began with
\* BEGIN:VEVENT, has start > 0, has a SUMMARY that is not empty, has no
\* STATUS line with CANCELLED among its lines, before or after its other
\* fields, and overlaps the local day of now.
C7_RowsOnlyFromQualifyingEvents ==
  pc = "parsed" =>
    \A k \in 1..Len(fp.ends) :
      fp.ends[k].emitted =>
        /\ HasBegin(Flatten(doc), k)
        /\ fp.ends[k].start > 0
        /\ SummaryIn(EventLines(Flatten(doc), k))
        /\ ~CancelledIn(EventLines(Flatten(doc), k))
        /\ OverlapsLocalDay(fp.ends[k].start, fp.ends[k].end, fp.nowUTC, zone)

\* an event cancelled after its SUMMARY was dropped and a later one emitted
C7_Witness ==
  /\ pc = "parsed"
  /\ Len(fp.ends) = 3
  /\ ~fp.ends[2].emitted
  /\ fp.ends[2].start > 0
  /\ fp.ends[2].summary = "Off2"
  /\ CancelledIn(EventLines(Flatten(doc), 2))
  /\ fp.ends[3].emitted

Unmalformed(b) == b \notin Malformed

\* the pass over the lines, from fresh locals, with this call's capacity
PassOver(lines) ==
  readLogicalLines(NewFrame(lines, [i \in 1..maxn |-> StaleRow], fp.nowUTC, fp.ofs), maxn, zone)

\* C8 as claimed: an event whose only DTSTART value is malformed emits no
\* row, and while the budget lasts the rows are those of the document
\* without that event.
C8_MalformedEventIsAbsent ==
  pc = "parsed" =>
    LET ref == PassOver(Flatten(SelectSeq(doc, Unmalformed)))
    IN  ~BudgetMet(ref) => (fp.filled = ref.filled /\ fp.out = ref.out)

\* DTSTART and DTEND lines of the documents whose month or day is out of
\* range, in the all-day, the UTC and the local form
OutOfRange ==
  {"DTSTART;VALUE=DATE:20231315", "DTSTART:20241301T999999Z", "DTSTART:20240100T100000Z",
   "DTSTART;TZID=Europe/Berlin:20240132T100000", "DTEND:20241315T110000Z"}

Starts(ev) == {l \in ev : startsWith(l, "DTSTART")}

EndsOf(ev) == {l \in ev : startsWith(l, "DTEND")}

\* C9 as claimed: a DTSTART or DTEND whose month or day is out of range
\* fails in each of the three forms and leaves start or end as it was, so
\* that an event with no other DTSTART has no start at its END:VEVENT and is
\* discarded.
C9_OutOfRangeFieldFails ==
  /\ (pc = "read" /\ fp.haveLogical /\ fp.inEvent /\ fp.logical \in OutOfRange) =>
       \A old \in {fp.cur.start, fp.cur.end} :
         parseICSTime(fp.logical, old, zone) = [ok |-> FALSE, val |-> old]
  /\ pc = "parsed" =>
       \A k \in 1..Len(fp.ends) :
         LET ev == EventLines(Flatten(doc), k)
         IN  /\ (HasBegin(Flatten(doc), k) /\ Starts(ev) # {} /\ Starts(ev) \subseteq OutOfRange)
                  => (fp.ends[k].start = 0 /\ ~fp.ends[k].emitted)
             /\ (HasBegin(Flatten(doc), k) /\ EndsOf(ev) # {} /\ EndsOf(ev) \subseteq OutOfRange)
                  => fp.ends[k].end = 0

\* the lines from the first BEGIN:VEVENT on
FromFirstBegin(lines) ==
  LET begins == {i \in 1..Len(lines) : StripCR(lines[i]) = "BEGIN:VEVENT"}
  IN  IF begins = {} THEN <<>>
      ELSE SubSeq(lines, CHOOSE i \in begins : \A j \in begins : i <= j, Len(lines))

\* C10: when the stream starts inside an event, so that field lines and an
\* END:VEVENT come before any BEGIN:VEVENT, that partial event writes no row
\* and the rows are those of the stream from its first BEGIN:VEVENT on.
C10_PartialHeadIsAbsorbed ==
  (pc = "parsed" /\ Len(doc) >= 1 /\ doc[1] \in CutHeads) =>
    LET ref == PassOver(FromFirstBegin(Flatten(doc)))
    IN  /\ ~fp.ends[1].emitted
        /\ fp.filled = ref.filled
        /\ fp.out = ref.out

C10_Witness ==
  /\ pc = "parsed"
  /\ Len(doc) >= 2
  /\ doc[1] \in CutHeads
  /\ fp.filled >= 1
  /\ fp.out[1].title = "Standup"

\* the parser has been handed every logical line delivered so far
AllHanded(f) == f.handed = Len(f.heard)

\* C11 as claimed: inAlarm holds only inside an event, and a BEGIN:VALARM
\* met outside an event does not keep a following BEGIN:VEVENT from opening
\* one.
C11_AlarmNestedInEvent ==
  pc \in {"read", "parsed"} =>
    /\ fp.inAlarm => fp.inEvent
    /\ (AllHanded(fp) /\ Len(fp.heard) > 0 /\ fp.heard[Len(fp.heard)] = "BEGIN:VEVENT")
         => fp.inEvent

RECURSIVE StripAll(_)
StripAll(lines) ==
  IF lines = <<>> THEN <<>> ELSE <<StripCR(Head(lines))>> \o StripAll(Tail(lines))

\* line i lies in a block that a BEGIN:VALARM opened and no END:VALARM has
\* closed
Alarmed(L, i) ==
  \E j \in 1..i : /\ startsWith(L[j], "BEGIN:VALARM")
                  /\ \A m \in j..i : ~startsWith(L[m], "END:VALARM")

\* the lines BEGIN:VEVENT and END:VEVENT that are outside the alarm blocks
Marks(L, what) == {i \in 1..Len(L) : L[i] = what /\ ~Alarmed(L, i)}

KthMark(L, what, k) ==
  CHOOSE i \in Marks(L, what) : Cardinality({j \in Marks(L, what) : j <= i}) = k

\* the BEGIN:VEVENT of the event that the END:VEVENT at line e closes, 0 when
\* no event is open there
BeginOf(L, e) ==
  LET marks == {j \in Marks(L, "BEGIN:VEVENT") \cup Marks(L, "END:VEVENT") : j < e}
      last == CHOOSE j \in marks : \A m \in marks : m <= j
  IN  IF marks = {} THEN 0 ELSE IF L[last] = "BEGIN:VEVENT" THEN last ELSE 0

\* the lines b+1 .. e-1 that are outside the alarm blocks
RECURSIVE OwnLines(_, _, _)
OwnLines(L, b, e) ==
  IF b + 1 >= e THEN <<>>
  ELSE (IF Alarmed(L, b + 1) \/ startsWith(L[b + 1], "END:VALARM") THEN <<>> ELSE <<L[b + 1]>>)
         \o OwnLines(L, b + 1, e)

\* the event alone, as a document
Alone(own) == <<"BEGIN:VEVENT">> \o own \o <<"END:VEVENT">>

\* C12: the row written at an END:VEVENT is the row of the event's own
\* lines alone, those between its BEGIN:VEVENT and its END:VEVENT outside
\* any VALARM block: nothing before the BEGIN:VEVENT (an earlier event, a
\* cancelled flag, lines met while idle) and nothing inside an alarm
\* contributes, and a row is written exactly when the event alone gives one.
C12_RowFromOwnLinesOnly ==
  (pc = "parsed" /\ site = "alarm") =>
    \A k \in 1..Len(fp.ends) :
      LET L == StripAll(Flatten(doc))
          e == KthMark(L, "END:VEVENT", k)
          b == BeginOf(L, e)
          alone == PassOver(Alone(OwnLines(L, b, e)))
      IN  /\ fp.ends[k].emitted = (b > 0 /\ alone.filled = 1)
          /\ fp.ends[k].emitted => fp.out[fp.ends[k].row + 1] = alone.out[1]

\* a row for the event whose alarm comes first and holds a SUMMARY, a DTSTART,
\* a LOCATION and a STATUS:CANCELLED, after an event that was cancelled
C12_Witness ==
  /\ pc = "parsed"
  /\ doc = <<"cancelled", "alarmFirst">>
  /\ zone = 0
  /\ fp.filled = 1
  /\ fp.out[1] = [time |-> "18:00-18:00", title |-> "Dinner"]

IsContinuation(l) == Len(l) > 0 /\ charAt(l, 0) \in {" ", "\t"}

\* the document with its continuation lines unfolded by hand: the line end
\* before a continuation and the continuation's first character are taken
\* out; acc is the lines unfolded so far
RECURSIVE UnfoldInto(_, _)
UnfoldInto(acc, lines) ==
  IF lines = <<>> THEN acc
  ELSE IF IsContinuation(Head(lines)) /\ acc # <<>>
    THEN UnfoldInto([acc EXCEPT ![Len(acc)] = StripCR(acc[Len(acc)])
                                                \o substringFrom(Head(lines), 1)],
                    Tail(lines))
  ELSE IF IsContinuation(Head(lines))
    THEN UnfoldInto(<<substringFrom(Head(lines), 1)>>, Tail(lines))
  ELSE UnfoldInto(Append(acc, Head(lines)), Tail(lines))

Unfold(lines) == UnfoldInto(<<>>, lines)

\* every physical line is shorter than the line buffer
FitsBuffer(lines) == \A i \in 1..Len(lines) : Len(lines[i]) < kLineBuf

\* C13 as claimed: for a document whose physical lines are shorter than the
\* line buffer, readLogicalLines delivers the same logical lines from the
\* folded document as from the document unfolded by hand, and none from an
\* empty stream.  Documents that open with a continuation, which has no
\* line to be unfolded into, are left aside.
C13_FoldedEqualsUnfolded ==
  (pc = "parsed" /\ site = "lines"
     /\ (Flatten(doc) # <<>> => ~IsContinuation(Flatten(doc)[1]))
     /\ FitsBuffer(Flatten(doc)) /\ FitsBuffer(Unfold(Flatten(doc)))) =>
    /\ fp.heard = PassOver(Unfold(Flatten(doc))).heard
    /\ (doc = <<>> => fp.heard = <<>>)

\* the document with every physical line cut to what the buffer takes
RECURSIVE CutToBuffer(_)
CutToBuffer(lines) ==
  IF lines = <<>> THEN <<>>
  ELSE <<SubSeq(Head(lines), 1, Min(Len(Head(lines)), kLineBuf - 1))>>
         \o CutToBuffer(Tail(lines))

HasOverlong(lines) == \E i \in 1..Len(lines) : Len(lines[i]) > kLineBuf - 1

\* C14 as claimed: a physical line longer than kLineBuf - 1 characters is
\* truncated, so that the logical lines delivered are those of the document
\* with the line cut to that length: what lies beyond appears in no logical
\* line and makes no line of its own.
C14_OverlongLineTruncated ==
  (pc = "parsed" /\ site = "long" /\ HasOverlong(Flatten(doc))) =>
    /\ fp.heard = StripAll(Unfold(CutToBuffer(Flatten(doc))))
    /\ \A i \in 1..Len(fp.heard) : Len(fp.heard[i]) <= kLineBuf - 1

\* C15: spansToday is true exactly when max(end, start) >= dayStart and
\* start <= dayStart + 86399, dayStart being local midnight of now's local
\* day.  At offset 0, with now on 2024-01-15: 23:00 to 23:30 of that day
\* overlaps, 23:00 to 23:59 of the day before does not, 23:30 to 00:30 of
\* the next day overlaps, and an end not after the start counts as the start.
C15_SpansTodayIsOverlap ==
  (pc = "parsed" /\ site = "clock") =>
    /\ \A k \in 1..Len(fp.ends) :
         /\ fp.ends[k].start > 0
         /\ fp.ends[k].emitted
              = OverlapsLocalDay(fp.ends[k].start, fp.ends[k].end, fp.nowUTC, fp.ofs)
         /\ fp.ends[k].end <= fp.ends[k].start =>
              fp.ends[k].emitted
                = OverlapsLocalDay(fp.ends[k].start, fp.ends[k].start, fp.nowUTC, fp.ofs)
    /\ (zone = 0 /\ doc = Slot("20240115T230000Z", "20240115T233000Z")) => fp.filled = 1
    /\ (zone = 0 /\ doc = Slot("20240114T230000Z", "20240114T235900Z")) => fp.filled = 0
    /\ (zone = 0 /\ doc = Slot("20240115T233000Z", "20240116T003000Z")) => fp.filled = 1

\* east of UTC, late on the 15th: the local day is the 16th, and an event
\* that ends before it starts is on it by its start alone
C15_Witness ==
  /\ pc = "parsed"
  /\ zone = 7200
  /\ fp.nowUTC = daysFromCivil(2024, 1, 15) * 86400 + 23 * 3600 + 1800
  /\ doc = Slot("20240116T003000Z", "20240114T230000Z")
  /\ fp.filled = 1

Digits == <<"0", "1", "2", "3", "4", "5", "6", "7", "8", "9">>

\* the 24-hour time of the second t of a day, zero-padded
ClockFace(t) ==
  Digits[((t % 86400) \div 36000) + 1] \o Digits[(((t % 86400) \div 3600) % 10) + 1] \o ":"
    \o Digits[((t % 3600) \div 600) + 1] \o Digits[(((t % 3600) \div 60) % 10) + 1]

SummaryOf(d) == substringFrom(d[3], 8)

LocationOf(d) == substringFrom(d[4], 9)

\* the title before it is cut: the summary, and the location in brackets
\* when there is one
WholeTitle(su, lo) == IF lo = "" THEN su ELSE su \o " (" \o lo \o ")"

\* C17: the title of a row is the first min(39, L) characters of T, where T
\* is the unescaped SUMMARY followed by " (" unescaped LOCATION ")" when the
\* LOCATION is not empty and L is the length of T; it never exceeds the 39
\* characters the 40-byte buffer holds before its terminator.
C17_TitleClamped ==
  (pc = "parsed" /\ site = "texts" /\ fp.filled = 1) =>
    LET T == WholeTitle(icsUnescape(SummaryOf(doc)), icsUnescape(LocationOf(doc)))
    IN  /\ fp.out[1].title = SubSeq(T, 1, Min(TitleSize - 1, Len(T)))
        /\ Len(fp.out[1].title) <= TitleSize - 1

\* a title of 40 characters after unescaping, the comma at the 39th place
C17_Witness ==
  /\ pc = "parsed"
  /\ site = "texts"
  /\ fp.filled = 1
  /\ SummaryOf(doc) = Pad(TitleSize - 2) \o "\\,y"
  /\ LocationOf(doc) = ""
  /\ fp.out[1].title = Pad(TitleSize - 2) \o ","

HasBackslash(t) == \E i \in 1..Len(t) : SubSeq(t, i, i) = "\\"

\* the text read from the left: backslash n or N gives a space, backslash
\* before a backslash, comma or semicolon gives that character, anything
\* else goes through as it is
RECURSIVE Unescaped(_)
Unescaped(t) ==
  IF Len(t) = 0 THEN ""
  ELSE IF Len(t) >= 2 /\ SubSeq(t, 1, 1) = "\\" /\ SubSeq(t, 2, 2) \in {"n", "N"}
    THEN " " \o Unescaped(SubSeq(t, 3, Len(t)))
  ELSE IF Len(t) >= 2 /\ SubSeq(t, 1, 1) = "\\" /\ SubSeq(t, 2, 2) \in {"\\", ",", ";"}
    THEN SubSeq(t, 2, 2) \o Unescaped(SubSeq(t, 3, Len(t)))
  ELSE SubSeq(t, 1, 1) \o Unescaped(SubSeq(t, 2, Len(t)))

\* C18: icsUnescape is one pass from the left in which backslash n or N
\* gives one space, backslash before backslash, comma or semicolon gives
\* that character, and any other backslash, a last one included, is copied;
\* text with no backslash comes out as it went in, once or twice applied.
C18_UnescapeSinglePass ==
  (pc = "parsed" /\ site = "texts") =>
    LET t == SummaryOf(doc)
    IN  /\ icsUnescape(t) = Unescaped(t)
        /\ ~HasBackslash(t) => (icsUnescape(t) = t /\ icsUnescape(icsUnescape(t)) = icsUnescape(t))
        /\ fp.filled = 1 =>
             fp.out[1].title
               = SubSeq(WholeTitle(Unescaped(t), Unescaped(LocationOf(doc))), 1,
                        Min(TitleSize - 1,
                            Len(WholeTitle(Unescaped(t), Unescaped(LocationOf(doc))))))

\* backslash n, then a backslash that ends the text
C18_Witness ==
  /\ pc = "parsed"
  /\ site = "texts"
  /\ SummaryOf(doc) = "\\n\\"
  /\ fp.filled = 1
  /\ fp.out[1].title = " \\ ( \\)"

\* C19 as claimed: A\, B\; C\\n D comes out as A, B; C\ D, with no n.
C19_SampleLosesN ==
  (pc = "parsed" /\ site = "texts" /\ SummaryOf(doc) = SampleText) =>
    fp.out[1].title = "A, B; C\\ D"

\* C19 as amended: A\, B\; C\\n D comes out as A, B; C\n D: the pair of
\* backslashes gives one backslash and the n after it is copied.
C19_SampleKeepsN ==
  (pc = "parsed" /\ site = "texts" /\ SummaryOf(doc) = SampleText) =>
    /\ Len(SampleText) = 14
    /\ fp.filled = 1
    /\ fp.out[1].title = "A, B; C\\n D"
    /\ icsUnescape(SampleText) = "A, B; C\\n D"

C19_Witness ==
  /\ pc = "parsed"
  /\ site = "texts"
  /\ doc = Titled(SampleText, "")
  /\ fp.out[1].title = "A, B; C\\n D"

\* C20: in a pass every write to the buffer goes to the row at index
\* filled, below min(maxn, 6), which has not been written before, sets its
\* time and its title, and comes with filled going up by one; no other row
\* changes, and when the call returns the rows from the returned count on
\* are as the caller passed them.
C20_RowsWrittenOnceInOrder ==
  [][pc # "idle" =>
       /\ Len(fp'.out) = Len(fp.out)
       /\ \A i \in 1..Len(fp.out) :
            fp'.out[i] # fp.out[i] =>
              /\ i = fp.filled + 1
              /\ i <= Min(maxn, kUiNeededItems)
              /\ fp'.filled = i
              /\ fp.out[i] = StaleRow
              /\ fp'.out[i].time # StaleRow.time
              /\ fp'.out[i].title # StaleRow.title
       /\ (pc = "read" /\ fp'.filled # fp.filled) =>
            /\ fp'.filled = fp.filled + 1
            /\ fp'.out[fp'.filled] # StaleRow
       /\ pc' = "done" =>
            /\ Len(fp'.out) = maxn
            /\ \A i \in (ret' + 1)..maxn : fp'.out[i] = StaleRow
            /\ \A i \in 1..ret' : fp'.out[i] # StaleRow]_vars

\* six rows written of a buffer of seven, the seventh as it was
C20_Witness ==
  /\ pc = "done"
  /\ site = "busy"
  /\ maxn = MaxCap
  /\ ret = kUiNeededItems
  /\ fp.out[kUiNeededItems] # StaleRow
  /\ fp.out[kUiNeededItems] # fp.out[kUiNeededItems - 1]
  /\ \A i \in (kUiNeededItems + 1)..maxn : fp.out[i] = StaleRow

(***************************************************************************)
(* The clock widget                                                        *)
(***************************************************************************)
\* Two struct tm of the same minute of the same day.
SameMinuteOfDay(a, b) ==
  /\ a.tm_year = b.tm_year
  /\ a.tm_yday = b.tm_yday
  /\ a.tm_hour = b.tm_hour
  /\ a.tm_min = b.tm_min

\* A tick made after the panel was painted.
TickAfterRepaint == lastCall.op = "tick" /\ lastCall.before # Blank

\* C21: a tick made after a repaint repaints if and only if the minute or
\* the day of the year it observed differs from that of the time painted
\* last; begin always repaints; after a repaint the recorded minute and day
\* of the year are those of the time on the panel; and a tick observing the
\* same minute of the same day as the time painted last does not repaint.
C21_RepaintOnChange ==
  /\ TickAfterRepaint =>
       (lastCall.repainted <=>
          \/ lastCall.seen.tm_min # lastCall.before.tm_min
          \/ lastCall.seen.tm_yday # lastCall.before.tm_yday)
  /\ lastCall.op = "begin" => (lastCall.repainted /\ painted # Blank)
  /\ painted # Blank => (_lastMinute = painted.tm_min /\ _lastYday = painted.tm_yday)
  /\ (TickAfterRepaint /\ SameMinuteOfDay(lastCall.seen, lastCall.before)) =>
       (~lastCall.repainted /\ painted = lastCall.before)

\* A tick that saw the last second of a minute other than the painted one,
\* and painted the next minute.
C21_Witness ==
  /\ TickAfterRepaint
  /\ lastCall.repainted
  /\ lastCall.seen.tm_sec = 59
  /\ painted.tm_min # lastCall.seen.tm_min
  /\ _lastMinute = painted.tm_min

\* Probes of the other cases of C21.
C21_ProbeQuiet ==
  /\ TickAfterRepaint /\ ~lastCall.repainted
  /\ SameMinuteOfDay(lastCall.seen, lastCall.before)
  /\ lastCall.seen.tm_sec # lastCall.before.tm_sec

C21_ProbeDay ==
  /\ TickAfterRepaint /\ lastCall.repainted
  /\ lastCall.seen.tm_min = lastCall.before.tm_min
  /\ lastCall.seen.tm_yday # lastCall.before.tm_yday

C21_ProbeHour ==
  /\ TickAfterRepaint /\ ~lastCall.repainted
  /\ lastCall.seen.tm_hour # lastCall.before.tm_hour

(***************************************************************************)
(* The guard of readToday                                                  *)
(***************************************************************************)
\* C22: a call of readToday with a null buffer, with maxn <= 0, without WiFi
\* or with no URL set returns 0 at once: it issues no request and the
\* buffer holds what the caller passed.
C22_GuardedCallDoesNothing ==
  [][(pc = "idle" /\ pc' # "idle" /\ (outNull' \/ maxn' <= 0 \/ ~wifi \/ url_ = "")) =>
       /\ pc' = "done"
       /\ ret' = 0
       /\ requests' = requests
       /\ requests' = <<>>
       /\ fp'.out = CallerBuffer(maxn', outNull')
       /\ \A i \in 1..Len(fp'.out) : fp'.out[i] = StaleRow]_vars

\* a call with a buffer and WiFi but no URL, returned
C22_Witness ==
  /\ pc = "done"
  /\ ~outNull /\ maxn > 0 /\ wifi /\ url_ = ""
  /\ ret = 0
  /\ requests = <<>>
  /\ Len(fp.out) = maxn

\* Probes of the other cases of C22.
C22_ProbeNull == pc = "done" /\ outNull /\ maxn > 0 /\ wifi /\ url_ # "" /\ requests = <<>>

C22_ProbeNoRoom == pc = "done" /\ ~outNull /\ maxn < 0 /\ wifi /\ url_ # "" /\ requests = <<>>

C22_ProbeNoWifi == pc = "done" /\ ~outNull /\ maxn > 0 /\ ~wifi /\ url_ # "" /\ requests = <<>>

\* A call that passes the guard issues a request.
C22_ProbeRequest == pc = "done" /\ ~outNull /\ maxn > 0 /\ wifi /\ url_ # "" /\ requests # <<>>

====
